---- MODULE Spec2Model ----
(***************************************************************************)
(* A model of rmc: the command-line front end (src/rmc/cli.py) and the     *)
(* JSON geometry/stroke exporter (src/rmc/exporters/json.py).              *)
(*                                                                         *)
(* Three specifications share the variables below:                         *)
(*   SpecCli   one invocation of cli(): format resolution, the shared      *)
(*             output stream, the per-file loop, json_blocks/lookahead;    *)
(*   SpecDraw  a drawing root is built, then get_bounding_box and the      *)
(*             flattened draw_group are applied to it;                     *)
(*   SpecText  a text root is built, then build_anchor_pos and draw_text   *)
(*             are applied to it.                                          *)
(* The binary decoder (rmscene) is the environment: what a file decodes to *)
(* is chosen when the file is opened.                                      *)
(***************************************************************************)
EXTENDS Integers, Sequences, FiniteSets, TLC

VARIABLES
    pc,          \* position of cli(): "init", "open_output", "loop", ..., "exit"
    from_,       \* resolved source format
    to,          \* resolved target format
    output,      \* --output path (its suffix) or None
    input,       \* the input paths (their suffixes), in order
    fout,        \* which stream open_output yielded: "none", "stdout", "stdout_bin", "file"
    outFile,     \* the file at the output path: "unopened", "open", "closed", "failed"
    binWrapper,  \* the os.fdopen wrapper of standard output: "none", "open", "closed"
    stdoutFd,    \* the process's standard-output descriptor: "open", "closed"
    acquired,    \* how many times open_output has yielded a stream
    written,     \* everything written to the shared output stream, in order
    fin,         \* state of each input file handle: "unopened", "open", "closed"
    idx,         \* index of the input file the loop is at (0 before the first)
    content,     \* what the open input file turns out to be, as its reader sees it
    it,          \* blocks pulled so far from the read_blocks iterator
    last,        \* the element lookahead holds back (0: none)
    yielded,     \* the pairs lookahead has yielded for the open file
    mark,        \* Len(written) when the open input file was opened
    exc,         \* exception in flight: "none", "usage", "error"
    exitStatus,  \* "running", "ok", "usage", "error"
    nodes,       \* the drawing tree: node 1 is the root Group
    textSample,  \* the text root the drawing is converted with
    drawn,       \* result of converting the drawing tree
    text,        \* the text root: <<>> (None) or <<[pos_x, pos_y, contents]>>
    textOut,     \* result of converting the text root
    phase        \* "build" or "done" (SpecDraw, SpecText)

cliVars == <<pc, from_, to, output, input, fout, outFile, binWrapper, stdoutFd,
             acquired, written, fin, idx, content, it, last, yielded, mark,
             exc, exitStatus>>
drawVars == <<nodes, textSample, drawn>>
textVars == <<text, textOut>>
vars == <<cliVars, drawVars, textVars, phase>>

None == "None"

\* The content of an input file that cannot be opened (and before any is).
NoContent == [readable |-> FALSE, n |-> 0, fail |-> "none", bad |-> 0, tree |-> <<>>]

\* ------------------------------------------------------------------ bounds

MaxInputs == 2
MaxBlocks == 2

\* ============================================ exporters/json.py: the text

MaxParagraphs == 2

\* A CrdtId (part1, part2); part2 is held as (part2 \div 10^6, part2 % 10^6) so
\* that the 48-bit counters of the fixed anchors stay within TLC's integers.
CrdtId(part1, millions, units) == <<part1, millions, units>>

\* Lines 127-130: the two special anchors and their offset.
FixedAnchor1 == CrdtId(0, 281474976, 710654)
FixedAnchor2 == CrdtId(0, 281474976, 710655)
FixedAnchorY == 100

TEXT_TOP_Y == -88

\* Lines 41-58, keyed by the name of the ParagraphStyle member; BASIC (value 0)
\* has no entry.
LINE_HEIGHTS ==
    [PLAIN |-> 70, BULLET |-> 35, BULLET2 |-> 35, BOLD |-> 70, HEADING |-> 150,
     CHECKBOX |-> 35, CHECKBOX_CHECKED |-> 35]
DefaultLineHeight == 70

\* LINE_HEIGHTS.get(p.style.value, 70)
LineHeight(style) ==
    IF style \in DOMAIN LINE_HEIGHTS THEN LINE_HEIGHTS[style] ELSE DefaultLineHeight

\* p.style.value.name.lower()
LowerName ==
    [BASIC |-> "basic", PLAIN |-> "plain", HEADING |-> "heading", BOLD |-> "bold",
     BULLET |-> "bullet", BULLET2 |-> "bullet2", CHECKBOX |-> "checkbox",
     CHECKBOX_CHECKED |-> "checkbox_checked"]

\* scale (lines 25-38): device units times 72.0 / 226, held as a fraction.
scale(screen_unit) == <<72 * screen_unit, 226>>
xx(v) == scale(v)
yy(v) == scale(v)

\* anchor_pos[k] = v
Put(d, k, v) == [x \in DOMAIN d \cup {k} |-> IF x = k THEN v ELSE d[x]]

RECURSIVE PutAll(_, _, _)
PutAll(d, ks, v) ==
    IF ks = <<>> THEN d ELSE PutAll(Put(d, Head(ks), v), Tail(ks), v)

\* Lines 138-140: the identifiers of every text run of a paragraph, in order.
RECURSIVE RunIds(_)
RunIds(runs) == IF runs = <<>> THEN <<>> ELSE Head(runs).i \o RunIds(Tail(runs))

\* Variant: the paragraph's line height is added before its identifiers are
\* recorded.
RECURSIVE AnchorLoop_AdvanceFirst(_, _, _)
AnchorLoop_AdvanceFirst(d, ps, ypos) ==
    IF ps = <<>> THEN d
    ELSE LET p == Head(ps)
             y == ypos + LineHeight(p.style)
         IN  AnchorLoop_AdvanceFirst(PutAll(Put(d, p.start_id, y), RunIds(p.contents), y),
                                     Tail(ps), y)

\* Lines 136-141: the loop over the paragraphs.
RECURSIVE AnchorLoop(_, _, _)
AnchorLoop(d, ps, ypos) ==
    IF ps = <<>> THEN d
    ELSE LET p == Head(ps)
         IN  AnchorLoop(PutAll(Put(d, p.start_id, ypos), RunIds(p.contents), ypos),
                        Tail(ps), ypos + LineHeight(p.style))

\* Lines 120-143. A text root is <<>> (None) or <<t>>; t.contents is the
\* paragraph list TextDocument.from_scene_item gives for it.
build_anchor_pos(t) ==
    LET seed == [k \in {FixedAnchor1, FixedAnchor2} |-> FixedAnchorY]
    IN  IF t = <<>> THEN seed
        ELSE AnchorLoop(seed, t[1].contents, t[1].pos_y + TEXT_TOP_Y)

\* str(p): the concatenation of the paragraph's runs. A string is the sequence
\* of its characters' code points.
RECURSIVE str(_)
str(runs) == IF runs = <<>> THEN <<>> ELSE Head(runs).s \o str(Tail(runs))

\* The characters str.strip() removes, those str.isspace() holds of: U+0009 to
\* U+000D, U+001C to U+0020, U+0085, U+00A0, U+1680, U+2000 to U+200A, U+2028,
\* U+2029, U+202F, U+205F, U+3000.
Whitespace ==
    (9..13) \cup (28..32) \cup {133, 160, 5760} \cup (8192..8202)
    \cup {8232, 8233, 8239, 8287, 12288}

RECURSIVE lstrip(_)
lstrip(cs) ==
    IF cs # <<>> /\ Head(cs) \in Whitespace THEN lstrip(Tail(cs)) ELSE cs

RECURSIVE rstrip(_)
rstrip(cs) ==
    IF cs # <<>> /\ cs[Len(cs)] \in Whitespace
    THEN rstrip(SubSeq(cs, 1, Len(cs) - 1)) ELSE cs

\* str.strip()
strip(cs) == rstrip(lstrip(cs))

\* Lines 285-292: the record of one text line.
TextLine(xpos, ypos, p) ==
    [x |-> xx(xpos), y |-> yy(ypos), xorg |-> xpos, yorg |-> ypos,
     text |-> strip(str(p.contents)), class |-> LowerName[p.style]]

\* Line 284: the <text> element written to the output.
TextElement(xpos, ypos, p) ==
    [x |-> xx(xpos), y |-> yy(ypos), class |-> LowerName[p.style],
     body |-> strip(str(p.contents))]

\* Lines 276-292: the loop over the paragraphs; acc holds the records and the
\* <text> elements so far.
RECURSIVE DrawTextLoop(_, _, _, _)
DrawTextLoop(t, ps, y_offset, acc) ==
    IF ps = <<>> THEN acc
    ELSE LET p == Head(ps)
             y == y_offset + LineHeight(p.style)
             xpos == t.pos_x
             ypos == t.pos_y + y
         IN  DrawTextLoop(t, Tail(ps), y,
                 IF str(p.contents) # <<>>
                 THEN [lines |-> Append(acc.lines, TextLine(xpos, ypos, p)),
                       markup |-> Append(acc.markup, TextElement(xpos, ypos, p))]
                 ELSE acc)

\* Lines 268-294.
draw_text(t) == DrawTextLoop(t, t.contents, TEXT_TOP_Y, [lines |-> <<>>, markup |-> <<>>])

\* ----------------------------------------------------- building a text root

StylesUsed == {"BASIC", "BULLET", "HEADING"}
PosX == -468
PosYs == {0, 188}

\* Identifiers of the k-th paragraph's own characters.
FreshId(k, j) == CrdtId(1, 0, 10 * k + j)

\* The runs a paragraph is tried with: none, a space, a carriage return, a
\* word, a word padded with a no-break space and a tab in two runs, a word
\* between a form feed and a carriage return, and a run whose characters carry
\* the fixed anchors' identifiers.
ContentKinds == {"none", "blank", "cr", "word", "padded", "feed", "special"}
ContentSample(c, k) ==
    CASE c = "none"    -> <<>>
      [] c = "blank"   -> <<[i |-> <<FreshId(k, 1)>>, s |-> <<32>>]>>
      [] c = "cr"      -> <<[i |-> <<FreshId(k, 1)>>, s |-> <<13>>]>>
      [] c = "word"    -> <<[i |-> <<FreshId(k, 1)>>, s |-> <<97>>]>>
      [] c = "padded"  -> <<[i |-> <<FreshId(k, 1), FreshId(k, 2)>>, s |-> <<160, 97>>],
                            [i |-> <<FreshId(k, 3), FreshId(k, 4)>>, s |-> <<98, 9>>]>>
      [] c = "feed"    -> <<[i |-> <<FreshId(k, 1), FreshId(k, 2), FreshId(k, 3)>>,
                             s |-> <<12, 113, 13>>]>>
      [] c = "special" -> <<[i |-> <<FixedAnchor1, FixedAnchor2>>, s |-> <<99, 100>>]>>

otherThanText == <<cliVars, drawVars>>

CreateText(py) ==
    /\ phase = "build"
    /\ text = <<>>
    /\ text' = <<[pos_x |-> PosX, pos_y |-> py, contents |-> <<>>]>>
    /\ UNCHANGED <<textOut, phase>>
    /\ UNCHANGED otherThanText

AddParagraph(startSpecial, style, c) ==
    /\ phase = "build"
    /\ text # <<>>
    /\ Len(text[1].contents) < MaxParagraphs
    /\ LET k == Len(text[1].contents) + 1
           p == [start_id |-> IF startSpecial THEN FixedAnchor1 ELSE FreshId(k, 0),
                 style |-> style,
                 contents |-> ContentSample(c, k)]
       IN  text' = <<[text[1] EXCEPT !.contents = Append(@, p)]>>
    /\ UNCHANGED <<textOut, phase>>
    /\ UNCHANGED otherThanText

\* tree_to_json lines 80 and 99-101: the anchor table, then the text records.
TreeToJsonText ==
    /\ phase = "build"
    /\ phase' = "done"
    /\ textOut' = <<[anchor_pos |-> build_anchor_pos(text),
                    drawn |-> IF text # <<>> THEN draw_text(text[1])
                              ELSE [lines |-> <<>>, markup |-> <<>>]]>>
    /\ UNCHANGED text
    /\ UNCHANGED otherThanText

InitText ==
    /\ pc = "idle"
    /\ from_ = None /\ to = None /\ output = None /\ input = <<>>
    /\ fout = "none" /\ outFile = "unopened" /\ binWrapper = "none"
    /\ stdoutFd = "open" /\ acquired = 0 /\ written = <<>>
    /\ fin = <<>> /\ idx = 0 /\ content = NoContent
    /\ it = 0 /\ last = 0 /\ yielded = <<>> /\ mark = 0
    /\ exc = "none" /\ exitStatus = "running"
    /\ nodes = <<>> /\ textSample = <<>> /\ drawn = <<>>
    /\ text = <<>> /\ textOut = <<>> /\ phase = "build"

NextText ==
    \/ \E py \in PosYs : CreateText(py)
    \/ \E sp \in BOOLEAN, st \in StylesUsed, c \in ContentKinds : AddParagraph(sp, st, c)
    \/ TreeToJsonText

SpecText == InitText /\ [][NextText]_vars

\* ========================================= exporters/json.py: the drawing

MaxNodes == 4
MaxPoints == 2

SCREEN_WIDTH == 1404
SCREEN_HEIGHT == 1872

Min2(a, b) == IF a <= b THEN a ELSE b
Max2(a, b) == IF a >= b THEN a ELSE b
MinOf(S) == CHOOSE m \in S : \A v \in S : m <= v
MaxOf(S) == CHOOSE m \in S : \A v \in S : m >= v

\* The default of get_bounding_box (line 166): Python's floor division.
FullScreen == <<-(SCREEN_WIDTH \div 2), SCREEN_WIDTH \div 2, 0, SCREEN_HEIGHT>>

\* item.children, in order: the nodes whose parent is n.
Children(ns, n) == SelectSeq([i \in 1..Len(ns) |-> i], LAMBDA i : ns[i].parent = n)

Raised == [ok |-> FALSE, x |-> 0, y |-> 0]

\* Variant: the table is indexed without the membership test of line 152.
get_anchor_KeyError(item, anchor_pos) ==
    IF item.anchor_id = <<>> THEN [ok |-> TRUE, x |-> 0, y |-> 0]
    ELSE IF item.anchor_origin_x = <<>> THEN Raised
    ELSE IF item.anchor_id[1] \in DOMAIN anchor_pos
         THEN [ok |-> TRUE, x |-> item.anchor_origin_x[1], y |-> anchor_pos[item.anchor_id[1]]]
         ELSE Raised

\* Lines 146-161. The assert of line 150 raises for a group that has an anchor
\* identifier and no anchor origin-x (and without the assert, line 151 does).
get_anchor(item, anchor_pos) ==
    IF item.anchor_id = <<>> THEN [ok |-> TRUE, x |-> 0, y |-> 0]
    ELSE IF item.anchor_origin_x = <<>> THEN Raised
    ELSE [ok |-> TRUE,
          x |-> item.anchor_origin_x[1],
          y |-> IF item.anchor_id[1] \in DOMAIN anchor_pos
                THEN anchor_pos[item.anchor_id[1]]
                ELSE 0]

Xs(line) == {line.points[k].x : k \in DOMAIN line.points}
Ys(line) == {line.points[k].y : k \in DOMAIN line.points}

\* Lines 186-189: the box widened over the points of a Line.
BoxWithLine(b, line) ==
    <<MinOf({b[1]} \cup Xs(line)), MaxOf({b[2]} \cup Xs(line)),
      MinOf({b[3]} \cup Ys(line)), MaxOf({b[4]} \cup Ys(line))>>

\* Lines 181-184: the box widened over a child group's box, translated by the
\* child's anchor.
BoxWithGroup(b, cb, a) ==
    <<Min2(b[1], cb[1] + a.x), Max2(b[2], cb[2] + a.x),
      Min2(b[3], cb[3] + a.y), Max2(b[4], cb[4] + a.y)>>

RECURSIVE get_bounding_box(_, _, _, _)
RECURSIVE BoundingBoxLoop(_, _, _, _)

\* Lines 176-189: the loop over the children; acc is the running box, or the
\* exception that ended the walk.
BoundingBoxLoop(ns, kids, anchor_pos, acc) ==
    IF kids = <<>> \/ ~acc.ok THEN acc
    ELSE LET child == ns[Head(kids)]
         IN  IF child.kind = "group"
             THEN LET a == get_anchor(child, anchor_pos)
                      cb == get_bounding_box(ns, Head(kids), anchor_pos, <<0, 0, 0, 0>>)
                  IN  IF ~a.ok \/ ~cb.ok
                      THEN [ok |-> FALSE, box |-> acc.box]
                      ELSE BoundingBoxLoop(ns, Tail(kids), anchor_pos,
                               [ok |-> TRUE, box |-> BoxWithGroup(acc.box, cb.box, a)])
             ELSE BoundingBoxLoop(ns, Tail(kids), anchor_pos,
                      [ok |-> TRUE, box |-> BoxWithLine(acc.box, child)])

\* Lines 164-191.
get_bounding_box(ns, item, anchor_pos, default) ==
    BoundingBoxLoop(ns, Children(ns, item), anchor_pos, [ok |-> TRUE, box |-> default])

\* Lines 249-259: the record of one point (the pen's colour, width and opacity
\* are left out).
PointRecord(point, anchor_x, anchor_y) ==
    [x |-> xx(point.x + anchor_x), y |-> yy(point.y + anchor_y),
     xorg |-> point.x, yorg |-> point.y,
     anchorx |-> anchor_x, anchory |-> anchor_y]

\* Lines 227-265 with flatten=True: a record is appended inside the test of
\* line 240, for the points whose 0-based index is a multiple of the pen's
\* segment_length.
draw_stroke(line, anchor_x, anchor_y) ==
    LET starts == SelectSeq([k \in 1..Len(line.points) |-> k],
                            LAMBDA k : (k - 1) % line.segment_length = 0)
    IN  [j \in 1..Len(starts) |-> PointRecord(line.points[starts[j]], anchor_x, anchor_y)]

RECURSIVE draw_group(_, _, _)
RECURSIVE DrawGroupLoop(_, _, _, _, _)

\* Lines 200-211 with flatten=True.
DrawGroupLoop(ns, kids, anchor_pos, a, acc) ==
    IF kids = <<>> \/ ~acc.ok THEN acc
    ELSE LET child == ns[Head(kids)]
         IN  IF child.kind = "group"
             THEN LET sub == draw_group(ns, Head(kids), anchor_pos)
                  IN  DrawGroupLoop(ns, Tail(kids), anchor_pos, a,
                          [ok |-> sub.ok, items |-> acc.items \o sub.items])
             ELSE DrawGroupLoop(ns, Tail(kids), anchor_pos, a,
                      [ok |-> TRUE, items |-> acc.items \o draw_stroke(child, a.x, a.y)])

\* Lines 194-213 with flatten=True: the flat list of point records.
draw_group(ns, item, anchor_pos) ==
    LET a == get_anchor(ns[item], anchor_pos)
    IN  IF ~a.ok THEN [ok |-> FALSE, items |-> <<>>]
        ELSE DrawGroupLoop(ns, Children(ns, item), anchor_pos, a,
                           [ok |-> TRUE, items |-> <<>>])

\* Lines 91-115: the JSON object, for the box b.
Document(b, text_lines, points) ==
    [page |-> [width |-> xx(b[2] - b[1] + 1), height |-> yy(b[4] - b[3] + 1),
               x |-> xx(b[1]), y |-> yy(b[3])],
     pageOrg |-> [width |-> b[2], height |-> b[4], x |-> b[1], y |-> b[3]],
     text |-> text_lines,
     points |-> points]

\* Lines 76-117, for the tree (root_text, ns) whose root Group is node 1. The
\* result holds what was written to the output, in order: get_bounding_box
\* (line 84) can raise before anything is written; draw_text (line 101) writes
\* its <text> elements; draw_group (line 103) can raise after that; the JSON
\* object is written last (line 117).
tree_to_json(root_text, ns) ==
    LET anchor_pos == build_anchor_pos(root_text)
        bb == get_bounding_box(ns, 1, anchor_pos, FullScreen)
        txt == IF root_text # <<>> THEN draw_text(root_text[1])
               ELSE [lines |-> <<>>, markup |-> <<>>]
        pts == draw_group(ns, 1, anchor_pos)
    IN  IF ~bb.ok
        THEN [completed |-> FALSE, box |-> bb.box, points |-> <<>>, output |-> <<>>]
        ELSE IF ~pts.ok
        THEN [completed |-> FALSE, box |-> bb.box, points |-> pts.items,
              output |-> txt.markup]
        ELSE [completed |-> TRUE, box |-> bb.box, points |-> pts.items,
              output |-> Append(txt.markup, Document(bb.box, txt.lines, pts.items))]

\* ------------------------------------------------- building a drawing root

\* A text root of one line of text.
OneLineText ==
    <<[pos_x |-> PosX, pos_y |-> 588,
       contents |-> <<[start_id |-> FreshId(1, 0), style |-> "PLAIN",
                       contents |-> ContentSample("word", 1)]>>]>>

\* The text roots a drawing is converted with: none, or one line of text.
TextSamples == {<<>>, OneLineText}

UnknownId == CrdtId(1, 0, 99)

\* The anchors a group is tried with: none, a fixed anchor, a paragraph of the
\* text, an identifier in no table, and an identifier without an origin-x.
NoAnchor == [anchor_id |-> <<>>, anchor_origin_x |-> <<>>]
GroupAnchors ==
    {NoAnchor,
     [anchor_id |-> <<FixedAnchor1>>, anchor_origin_x |-> <<300>>],
     [anchor_id |-> <<FreshId(1, 0)>>, anchor_origin_x |-> <<-800>>],
     [anchor_id |-> <<UnknownId>>, anchor_origin_x |-> <<-800>>],
     [anchor_id |-> <<UnknownId>>, anchor_origin_x |-> <<>>]}

\* The pens' segment lengths and the strokes a Line is tried with: n points
\* going right and down from (800, 1900).
SegmentLengths == {1, 2}
Stroke(n) == [k \in 1..n |-> [x |-> 800 + 10 * (k - 1), y |-> 1900 + 5 * (k - 1)]]

Group(parent, anchor) ==
    [kind |-> "group", parent |-> parent,
     anchor_id |-> anchor.anchor_id, anchor_origin_x |-> anchor.anchor_origin_x,
     points |-> <<>>, segment_length |-> 1]

Line(parent, points, segment_length) ==
    [kind |-> "line", parent |-> parent, anchor_id |-> <<>>, anchor_origin_x |-> <<>>,
     points |-> points, segment_length |-> segment_length]

GroupNodes == {n \in DOMAIN nodes : nodes[n].kind = "group"}
LineNodes == {n \in DOMAIN nodes : nodes[n].kind = "line"}

otherThanDraw == <<cliVars, textVars>>

AddGroup(parent, anchor) ==
    /\ phase = "build"
    /\ Len(nodes) < MaxNodes
    /\ parent \in GroupNodes
    /\ nodes' = Append(nodes, Group(parent, anchor))
    /\ UNCHANGED <<textSample, drawn, phase>>
    /\ UNCHANGED otherThanDraw

AddLine(parent, n, sl) ==
    /\ phase = "build"
    /\ Len(nodes) < MaxNodes
    /\ parent \in GroupNodes
    /\ nodes' = Append(nodes, Line(parent, Stroke(n), sl))
    /\ UNCHANGED <<textSample, drawn, phase>>
    /\ UNCHANGED otherThanDraw

\* tree_to_json is applied to the tree: the bounding box and the flat list of
\* points; completed when neither walk raised.
TreeToJsonDraw ==
    /\ phase = "build"
    /\ phase' = "done"
    /\ LET r == tree_to_json(textSample, nodes)
       IN  drawn' = <<[completed |-> r.completed, box |-> r.box, points |-> r.points]>>
    /\ UNCHANGED <<nodes, textSample>>
    /\ UNCHANGED otherThanDraw

\* The drawing root is a Group without an anchor.
InitDraw ==
    /\ pc = "idle"
    /\ from_ = None /\ to = None /\ output = None /\ input = <<>>
    /\ fout = "none" /\ outFile = "unopened" /\ binWrapper = "none"
    /\ stdoutFd = "open" /\ acquired = 0 /\ written = <<>>
    /\ fin = <<>> /\ idx = 0 /\ content = NoContent
    /\ it = 0 /\ last = 0 /\ yielded = <<>> /\ mark = 0
    /\ exc = "none" /\ exitStatus = "running"
    /\ nodes = <<Group(0, NoAnchor)>>
    /\ textSample \in TextSamples
    /\ drawn = <<>>
    /\ text = <<>> /\ textOut = <<>> /\ phase = "build"

NextDraw ==
    \/ \E parent \in 1..MaxNodes, anchor \in GroupAnchors : AddGroup(parent, anchor)
    \/ \E parent \in 1..MaxNodes, n \in 0..MaxPoints, sl \in SegmentLengths :
          AddLine(parent, n, sl)
    \/ TreeToJsonDraw

SpecDraw == InitDraw /\ [][NextDraw]_vars

\* ===================================================== cli.py

\* ------------------------------------------------------------ cli.py: data

\* Suffixes of the paths an invocation is tried with.
InSuffixes == {".rm", ".md"}
OutSuffixes == {".svg", ".pdf", ".md", ".json"}
FromOpts == {None, "rm", "markdown"}
ToOpts == {None, "blocks", "blocks-data", "json", "svg", "tree", "tree-data",
           "pdf", "rm", "epub"}

RECURSIVE SeqsUpTo(_, _)
SeqsUpTo(S, n) ==
    IF n = 0 THEN {<<>>}
    ELSE LET shorter == SeqsUpTo(S, n - 1)
         IN  shorter \cup {Append(s, x) : s \in {t \in shorter : Len(t) = n - 1}, x \in S}

\* A Group with an anchor identifier and no anchor origin-x.
NoOriginX == [anchor_id |-> <<UnknownId>>, anchor_origin_x |-> <<>>]

\* The trees read_tree is tried with: an empty one; a line of text and a
\* stroke; a line of text and a root Group that get_anchor raises for; a line
\* of text and a child Group that get_anchor raises for.
Trees ==
    {[root_text |-> <<>>, nodes |-> <<Group(0, NoAnchor)>>],
     [root_text |-> OneLineText, nodes |-> <<Group(0, NoAnchor), Line(1, Stroke(1), 1)>>],
     [root_text |-> OneLineText, nodes |-> <<Group(0, NoOriginX)>>],
     [root_text |-> OneLineText, nodes |-> <<Group(0, NoAnchor), Group(1, NoOriginX)>>]}

Decoded(n, f, b, tr) == [readable |-> TRUE, n |-> n, fail |-> f, bad |-> b, tree |-> tr]

\* What an input file turns out to be once opened, as the reader the target
\* format t selects sees it: unreadable (open raises); for read_blocks a stream
\* of n blocks after which the decoder stops or raises, the first block
\* json.dumps raises for being block bad (0: none); for read_tree a tree, or
\* the decoder raises; for json_tree, also whether the json.dumps of line 155
\* raises; for the SVG exporter, which is not part of this model, whether it
\* completes or raises part-way.
Contents(t) ==
    {NoContent} \cup
    (CASE t \in {"blocks", "blocks-data"} ->
              UNION {{Decoded(n, f, b, <<>>) : f \in {"none", "decode"}, b \in 0..n} :
                        n \in 0..MaxBlocks}
       [] t = "json" ->
              {Decoded(0, "none", 0, <<tr>>) : tr \in Trees}
              \cup {Decoded(0, "decode", 0, <<>>)}
       [] t = "svg" ->
              {Decoded(0, f, 0, <<>>) : f \in {"none", "decode", "export"}}
       [] t \in {"tree", "tree-data"} ->
              {Decoded(0, f, 0, <<>>) : f \in {"none", "decode", "export"}}
       [] OTHER -> {Decoded(0, "none", 0, <<>>)})

guess_format(suffix) ==
    IF suffix = ".rm" THEN "rm"
    ELSE IF suffix = ".svg" THEN "svg"
    ELSE IF suffix = ".pdf" THEN "pdf"
    ELSE IF suffix = ".md" \/ suffix = ".markdown" THEN "markdown"
    ELSE "blocks"

ToBinary(t) == t \in {"pdf", "rm"}

\* The targets convert_rm dispatches on.
KnownTargets == {"blocks", "blocks-data", "json", "svg", "tree", "tree-data"}

Tok(i, kind, el) == <<i, kind, el>>

otherThanCli == <<drawVars, textVars, phase>>

\* ------------------------------------------------- cli.py: cli (lines 25-61)

\* Lines 43-61 up to the with statement: the formats are resolved, and every
\* malformed invocation ends in a usage error before any stream is opened.
Cli(fopt, topt, oopt, inp) ==
    /\ pc = "init"
    /\ LET noFrom == fopt = None /\ inp = <<>>
           f == IF fopt # None THEN fopt
                ELSE IF inp = <<>> THEN None ELSE guess_format(inp[1])
           noTo == topt = None /\ oopt = None
           t == IF topt # None \/ noFrom THEN topt
                ELSE IF oopt = None THEN None ELSE guess_format(oopt)
           usage == noFrom \/ noTo \/ f # "rm"
       IN  /\ from_' = f
           /\ to' = t
           /\ output' = oopt
           /\ input' = inp
           /\ fin' = [k \in 1..Len(inp) |-> "unopened"]
           /\ pc' = IF usage THEN "exit" ELSE "open_output"
           /\ exitStatus' = IF usage THEN "usage" ELSE "running"
    /\ UNCHANGED <<fout, outFile, binWrapper, stdoutFd, acquired, written, idx,
                   content, it, last, yielded, mark, exc>>
    /\ UNCHANGED otherThanCli

\* ------------------------------------------ cli.py: open_output (lines 64-76)

\* Which stream the context manager yields.
open_output(t, o) ==
    IF o = None
    THEN IF ToBinary(t) THEN "stdout_bin" ELSE "stdout"
    ELSE "file"

\* Variant: the file is closed only when the body ends normally (no with
\* statement around the yield).
ReleasedFile_OnlyOnSuccess(stream, e, f) ==
    IF stream = "file" /\ e = "none" THEN "closed" ELSE f

\* Leaving the context manager: what becomes of the file at the output path
\* (the with statement of line 75 closes it, whatever ends the body).
ReleasedFile(stream, e, f) == IF stream = "file" THEN "closed" ELSE f

\* Leaving the context manager: the binary wrapper of line 70 is closed ...
ReleasedWrapper(stream, w) == IF stream = "stdout_bin" THEN "closed" ELSE w

\* ... with closefd=False, so the descriptor below it stays open; in text mode
\* sys.stdout itself is yielded and nothing closes it.
ReleasedFd(stream, fd) == fd

\* Entering the context manager (line 57). Opening the file at the output path
\* may raise, and then no stream is yielded; standard output is already open.
OpenOutput(ok) ==
    /\ pc = "open_output"
    /\ output = None => ok
    /\ acquired' = IF ok THEN acquired + 1 ELSE acquired
    /\ IF ok
       THEN /\ fout' = open_output(to, output)
            /\ outFile' = IF open_output(to, output) = "file" THEN "open" ELSE outFile
            /\ binWrapper' = IF open_output(to, output) = "stdout_bin" THEN "open" ELSE binWrapper
            /\ pc' = "loop"
            /\ exitStatus' = exitStatus
       ELSE /\ fout' = fout
            /\ outFile' = "failed"
            /\ binWrapper' = binWrapper
            /\ pc' = "exit"
            /\ exitStatus' = "error"
    /\ UNCHANGED <<from_, to, output, input, stdoutFd, written, fin, idx,
                   content, it, last, yielded, mark, exc>>
    /\ UNCHANGED otherThanCli

\* The for statement of line 58: the next input path, or the end of the body.
LoopNext ==
    /\ pc = "loop"
    /\ IF idx < Len(input)
       THEN idx' = idx + 1 /\ pc' = "open_input"
       ELSE idx' = idx /\ pc' = "release"
    /\ UNCHANGED <<from_, to, output, input, fout, outFile, binWrapper, stdoutFd,
                   acquired, written, fin, content, it, last, yielded, mark,
                   exc, exitStatus>>
    /\ UNCHANGED otherThanCli

\* The context manager is left (normally or with the exception in flight) and
\* the invocation ends.
ReleaseOutput ==
    /\ pc = "release"
    /\ outFile' = ReleasedFile(fout, exc, outFile)
    /\ binWrapper' = ReleasedWrapper(fout, binWrapper)
    /\ stdoutFd' = ReleasedFd(fout, stdoutFd)
    /\ pc' = "exit"
    /\ exitStatus' = IF exc = "none" THEN "ok" ELSE exc
    /\ UNCHANGED <<from_, to, output, input, fout, acquired, written, fin, idx,
                   content, it, last, yielded, mark, exc>>
    /\ UNCHANGED otherThanCli

\* ------------------------------------------ cli.py: convert_rm (lines 114-133)

\* Variant: the input handle is left open (no with statement).
ClosedInput_Leak(h, i) == h

\* The with statement of line 115 closes the input handle when its body ends.
ClosedInput(h, i) == [h EXCEPT ![i] = "closed"]

\* Line 115: the input file is opened for binary reading.
OpenInput(c) ==
    /\ pc = "open_input"
    /\ IF c.readable
       THEN /\ fin' = [fin EXCEPT ![idx] = "open"]
            /\ pc' = "dispatch"
            /\ exc' = exc
       ELSE /\ fin' = fin
            /\ pc' = "release"
            /\ exc' = "error"
    /\ content' = c
    /\ mark' = Len(written)
    /\ it' = 0
    /\ last' = 0
    /\ yielded' = <<>>
    /\ UNCHANGED <<from_, to, output, input, fout, outFile, binWrapper, stdoutFd,
                   acquired, written, idx, exitStatus>>
    /\ UNCHANGED otherThanCli

\* Variant: an unmatched target format is skipped silently.
UnknownFormat_Ignored ==
    /\ pc = "dispatch"
    /\ to \notin KnownTargets
    /\ fin' = [fin EXCEPT ![idx] = "closed"]
    /\ pc' = "loop"
    /\ UNCHANGED <<from_, to, output, input, fout, outFile, binWrapper, stdoutFd,
                   acquired, written, idx, content, it, last, yielded, mark,
                   exc, exitStatus>>
    /\ UNCHANGED otherThanCli

\* Lines 132-133: no branch matches the target format.
UnknownFormat ==
    /\ pc = "dispatch"
    /\ to \notin KnownTargets
    /\ fin' = ClosedInput(fin, idx)
    /\ exc' = "usage"
    /\ pc' = "release"
    /\ UNCHANGED <<from_, to, output, input, fout, outFile, binWrapper, stdoutFd,
                   acquired, written, idx, content, it, last, yielded, mark,
                   exitStatus>>
    /\ UNCHANGED otherThanCli

\* What tree_to_json has written for input file i: the <text> elements of
\* draw_text, then the JSON object if the conversion completed.
json_written(i, r) ==
    [j \in 1..Len(r.output) |->
        IF r.completed /\ j = Len(r.output) THEN Tok(i, "json", 0) ELSE Tok(i, "text", j)]

\* Lines 120-122: read_tree, then tree_to_json. read_tree raises before
\* anything is written; tree_to_json can raise before or after draw_text has
\* written its <text> elements.
ConvertJson ==
    /\ pc = "dispatch"
    /\ to = "json"
    /\ fin' = ClosedInput(fin, idx)
    /\ IF content.fail = "decode"
       THEN written' = written /\ exc' = "error" /\ pc' = "release"
       ELSE LET r == tree_to_json(content.tree[1].root_text, content.tree[1].nodes)
            IN  /\ written' = written \o json_written(idx, r)
                /\ IF r.completed
                   THEN exc' = exc /\ pc' = "loop"
                   ELSE exc' = "error" /\ pc' = "release"
    /\ UNCHANGED <<from_, to, output, input, fout, outFile, binWrapper, stdoutFd,
                   acquired, idx, content, it, last, yielded, mark, exitStatus>>
    /\ UNCHANGED otherThanCli

\* Lines 123-125: read_tree, then tree_to_svg. read_tree raises before
\* anything is written; the exporter writes its document, or raises with part
\* of it written.
ConvertSvg ==
    /\ pc = "dispatch"
    /\ to = "svg"
    /\ fin' = ClosedInput(fin, idx)
    /\ CASE content.fail = "decode" ->
              written' = written /\ exc' = "error" /\ pc' = "release"
         [] content.fail = "export" ->
              written' = Append(written, Tok(idx, "svg-part", 0))
              /\ exc' = "error" /\ pc' = "release"
         [] OTHER ->
              written' = Append(written, Tok(idx, "svg", 0)) /\ exc' = exc /\ pc' = "loop"
    /\ UNCHANGED <<from_, to, output, input, fout, outFile, binWrapper, stdoutFd,
                   acquired, idx, content, it, last, yielded, mark, exitStatus>>
    /\ UNCHANGED otherThanCli

\* Lines 126-131 and json_tree (lines 148-161): read_tree (line 149) and the
\* first json.dumps (line 155) can raise, before anything is printed; then
\* five prints; the second json.dumps (line 159) is of the same value as the
\* first.
json_tree(i) ==
    <<Tok(i, "[", 0), Tok(i, "root", 0), Tok(i, ",", 0), Tok(i, "root", 0), Tok(i, "]", 0)>>

JsonTree ==
    /\ pc = "dispatch"
    /\ to \in {"tree", "tree-data"}
    /\ fin' = ClosedInput(fin, idx)
    /\ IF content.fail # "none"
       THEN written' = written /\ exc' = "error" /\ pc' = "release"
       ELSE written' = written \o json_tree(idx) /\ exc' = exc /\ pc' = "loop"
    /\ UNCHANGED <<from_, to, output, input, fout, outFile, binWrapper, stdoutFd,
                   acquired, idx, content, it, last, yielded, mark, exitStatus>>
    /\ UNCHANGED otherThanCli

\* ------------------------- cli.py: json_blocks, lookahead (lines 136-185)

\* Lines 138-139: read_blocks returns a lazy iterator; "[" is printed before
\* any block is decoded.
JsonBlocksBegin ==
    /\ pc = "dispatch"
    /\ to \in {"blocks", "blocks-data"}
    /\ written' = Append(written, Tok(idx, "[", 0))
    /\ pc' = "la_first"
    /\ UNCHANGED <<from_, to, output, input, fout, outFile, binWrapper, stdoutFd,
                   acquired, fin, idx, content, it, last, yielded, mark, exc,
                   exitStatus>>
    /\ UNCHANGED otherThanCli

\* What lookahead yields for the element it held back: the element, and
\* whether another one has been pulled after it.
lookahead(held, more) == <<held, more>>

\* The loop body of json_blocks (lines 141-144) for one yielded pair: json.dumps
\* (line 141) raises for block bad, before anything is printed for it.
json_blocks_body(i, pair, bad) ==
    IF pair[1] = bad
    THEN [ok |-> FALSE, out |-> <<>>]
    ELSE [ok |-> TRUE,
          out |-> IF pair[2]
                  THEN <<Tok(i, "el", pair[1]), Tok(i, ",", 0)>>
                  ELSE <<Tok(i, "el", pair[1])>>]

\* lookahead lines 174-178: the first element is pulled. An empty stream ends
\* the generator at once, and json_blocks prints "]" (line 145).
LookaheadFirst ==
    /\ pc = "la_first"
    /\ IF content.n > 0
       THEN /\ it' = 1 /\ last' = 1
            /\ written' = written /\ fin' = fin /\ exc' = exc
            /\ pc' = "la_loop"
       ELSE /\ it' = it /\ last' = last
            /\ fin' = ClosedInput(fin, idx)
            /\ IF content.fail = "decode"
               THEN written' = written /\ exc' = "error" /\ pc' = "release"
               ELSE written' = Append(written, Tok(idx, "]", 0)) /\ exc' = exc /\ pc' = "loop"
    /\ UNCHANGED <<from_, to, output, input, fout, outFile, binWrapper, stdoutFd,
                   acquired, idx, content, yielded, mark, exitStatus>>
    /\ UNCHANGED otherThanCli

\* lookahead lines 180-185 with the body of json_blocks: the next element is
\* pulled before the held one is yielded and printed; when the stream ends the
\* held one is yielded as the last, and "]" is printed. When json.dumps raises
\* for the yielded element the generator is never resumed.
LookaheadNext ==
    /\ pc = "la_loop"
    /\ IF it < content.n
       THEN LET pair == lookahead(last, TRUE)
                body == json_blocks_body(idx, pair, content.bad)
            IN  /\ it' = it + 1
                /\ yielded' = Append(yielded, pair)
                /\ written' = written \o body.out
                /\ IF body.ok
                   THEN /\ last' = it + 1
                        /\ fin' = fin /\ exc' = exc /\ pc' = "la_loop"
                   ELSE /\ last' = last
                        /\ fin' = ClosedInput(fin, idx)
                        /\ exc' = "error" /\ pc' = "release"
       ELSE /\ it' = it /\ last' = last
            /\ fin' = ClosedInput(fin, idx)
            /\ IF content.fail = "decode"
               THEN /\ yielded' = yielded /\ written' = written
                    /\ exc' = "error" /\ pc' = "release"
               ELSE LET pair == lookahead(last, FALSE)
                        body == json_blocks_body(idx, pair, content.bad)
                    IN  /\ yielded' = Append(yielded, pair)
                        /\ IF body.ok
                           THEN /\ written' = (written \o body.out) \o <<Tok(idx, "]", 0)>>
                                /\ exc' = exc /\ pc' = "loop"
                           ELSE /\ written' = written \o body.out
                                /\ exc' = "error" /\ pc' = "release"
    /\ UNCHANGED <<from_, to, output, input, fout, outFile, binWrapper, stdoutFd,
                   acquired, idx, content, mark, exitStatus>>
    /\ UNCHANGED otherThanCli

\* ------------------------------------------------------ the cli specification

InitCli ==
    /\ pc = "init"
    /\ from_ = None /\ to = None /\ output = None /\ input = <<>>
    /\ fout = "none" /\ outFile = "unopened" /\ binWrapper = "none"
    /\ stdoutFd = "open" /\ acquired = 0 /\ written = <<>>
    /\ fin = <<>> /\ idx = 0 /\ content = NoContent
    /\ it = 0 /\ last = 0 /\ yielded = <<>> /\ mark = 0
    /\ exc = "none" /\ exitStatus = "running"
    /\ nodes = <<>> /\ textSample = <<>> /\ drawn = <<>>
    /\ text = <<>> /\ textOut = <<>> /\ phase = "idle"

NextCli ==
    \/ \E fopt \in FromOpts, topt \in ToOpts, oopt \in {None} \cup OutSuffixes,
          inp \in SeqsUpTo(InSuffixes, MaxInputs) : Cli(fopt, topt, oopt, inp)
    \/ \E ok \in BOOLEAN : OpenOutput(ok)
    \/ LoopNext
    \/ \E c \in Contents(to) : OpenInput(c)
    \/ UnknownFormat
    \/ ConvertJson
    \/ ConvertSvg
    \/ JsonTree
    \/ JsonBlocksBegin
    \/ LookaheadFirst
    \/ LookaheadNext
    \/ ReleaseOutput

SpecCli == InitCli /\ [][NextCli]_vars

\* ===================================================== claims: the cli

\* The from_ == "rm" branch of cli (line 56) has been taken.
RmBranch == pc # "init" /\ from_ = "rm" /\ to # None

InputsOpened == {k \in DOMAIN fin : fin[k] # "unopened"}

\* C2 as claimed: in every invocation whose source format resolves to "rm" the
\* output stream is acquired exactly once, and before any input file is opened;
\* a file opened at the output path is closed when the invocation ends, however
\* it ends; the standard-output descriptor is never closed.
C2_Original ==
    /\ (pc = "exit" /\ from_ = "rm") => acquired = 1
    /\ acquired = 0 => InputsOpened = {}
    /\ (pc = "exit" /\ output # None) => outFile # "open"
    /\ stdoutFd = "open"

\* C2 amended: in an invocation whose source format resolves to "rm", the
\* output stream is acquired at most once and before any input file is opened,
\* and exactly once when the target format resolves and the output path opens.
\* Without --to and --output the invocation ends in a usage error with no
\* stream acquired and no file opened; when the output path fails to open it
\* ends in an error with no stream acquired and no input opened. A file opened
\* at the output path is closed when the invocation ends, however it ends; the
\* standard-output descriptor is never closed, in text mode and in binary mode.
C2_Amended ==
    /\ acquired <= 1
    /\ (from_ = "rm" /\ pc \notin {"init", "open_output"}) =>
          (acquired = 1 <=> (to # None /\ outFile # "failed"))
    /\ (from_ = "rm" /\ pc # "init" /\ to = None) =>
          /\ pc = "exit" /\ exitStatus = "usage"
          /\ fout = "none" /\ outFile = "unopened" /\ binWrapper = "none"
          /\ InputsOpened = {}
    /\ outFile = "failed" =>
          /\ pc = "exit" /\ exitStatus = "error" /\ output # None
          /\ fout = "none" /\ InputsOpened = {} /\ written = <<>>
    /\ acquired = 0 => (InputsOpened = {} /\ written = <<>>)
    /\ (InputsOpened # {}) => fout # "none"
    /\ (pc = "exit" /\ output # None) => outFile # "open"
    /\ (pc = "exit" /\ fout = "file") => outFile = "closed"
    /\ (fout = "stdout_bin" /\ pc = "exit") => binWrapper = "closed"
    /\ stdoutFd = "open"

\* C2's case: an output file was opened and a decode failure in the second input
\* file, after output was written, ended the invocation.
C2_Witness ==
    /\ pc = "exit" /\ fout = "file" /\ outFile = "closed"
    /\ exitStatus = "error" /\ idx = 2 /\ content.fail = "decode" /\ written # <<>>

\* C3 as claimed, for invocations whose output path and input files open: an
\* rm-sourced invocation with a target format convert_rm does not know ends in
\* a usage error, whatever the list of input paths.
C3_Original ==
    (/\ pc = "exit" /\ RmBranch /\ to \notin KnownTargets
     /\ outFile # "failed"
     /\ (Len(input) >= 1 => fin[1] # "unopened"))
    => exitStatus = "usage"

\* C3 amended: with at least one input path the invocation ends non-zero with
\* nothing written and no later file opened, in the usage error raised while
\* converting the first input file whenever the output path and that file
\* open; with no input path it completes normally with nothing written.
C3_Amended ==
    (pc = "exit" /\ RmBranch /\ to \notin KnownTargets)
    => /\ written = <<>>
       /\ (Len(input) = 0 /\ outFile # "failed") => exitStatus = "ok"
       /\ Len(input) >= 1 =>
             /\ exitStatus # "ok"
             /\ \A k \in DOMAIN fin : k > 1 => fin[k] = "unopened"
             /\ (outFile # "failed" /\ fin[1] # "unopened")
                    => (exitStatus = "usage" /\ fin[1] = "closed" /\ idx = 1)

\* C3's case: two input paths, an unknown target; the usage error is raised
\* while converting the first and the second is never opened.
C3_Witness ==
    /\ pc = "exit" /\ RmBranch /\ to = "epub"
    /\ Len(input) = 2 /\ fin = <<"closed", "unopened">>
    /\ exitStatus = "usage"

\* File index of a token of the output stream.
TokFile(tok) == tok[1]

C4_Order ==
    /\ \A k \in DOMAIN fin :
          /\ k < idx => fin[k] = "closed"
          /\ k > idx => fin[k] = "unopened"
    /\ \A a, b \in DOMAIN written : a < b => TokFile(written[a]) <= TokFile(written[b])
    /\ \A a \in DOMAIN written : TokFile(written[a]) \in InputsOpened
    /\ (pc = "exit" /\ exitStatus = "ok") => \A k \in DOMAIN fin : fin[k] = "closed"

C4_Step ==
    \* output is only ever appended to, by the file that is open
    /\ Len(written') >= Len(written)
    /\ SubSeq(written', 1, Len(written)) = written
    /\ written' # written =>
          /\ fin[idx] = "open"
          /\ \A a \in (Len(written) + 1)..Len(written') : TokFile(written'[a]) = idx
    \* a file is opened only when every earlier one is closed
    /\ \A k \in DOMAIN fin :
          (fin[k] = "unopened" /\ fin'[k] # "unopened")
              => \A j \in DOMAIN fin : j < k => fin[j] = "closed"
    \* once a conversion has failed nothing more is opened or written
    /\ exc # "none" => (fin' = fin /\ written' = written /\ idx' = idx /\ exc' = exc)

\* C4: the inputs are converted strictly in order: a file is opened only after
\* every earlier file is closed and has made all its writes; after a failure in
\* file N no later file is opened, and the output written so far stays.
C4_InOrder == [](C4_Order) /\ [][pc # "init" => C4_Step]_vars

\* C4's case: of two input files the first fails to decode after part of its
\* block dump was written; the second is never opened and the part stays.
C4_Witness ==
    /\ pc = "exit" /\ exitStatus = "error" /\ Len(input) = 2 /\ idx = 1
    /\ fin = <<"closed", "unopened">>
    /\ written = <<Tok(1, "[", 0), Tok(1, "el", 1), Tok(1, ",", 0)>>

\* What json_blocks has written for the input file the loop is at.
Dump == SubSeq(written, mark + 1, Len(written))

\* C7: lookahead yields the reader's elements in order, flagged True but for
\* the last; and for every sequence of n blocks the reader returns, json_blocks
\* yields each once and writes "[", the n records in order with "," between
\* consecutive ones only, then "]".
C7_BlocksDump ==
    (RmBranch /\ to \in {"blocks", "blocks-data"} /\ idx >= 1)
    => /\ \A k \in DOMAIN yielded : yielded[k] = <<k, k < content.n>>
       /\ (fin[idx] = "closed" /\ content.fail = "none") =>
             LET n == content.n
             IN  /\ Len(yielded) = n
                 /\ Len(Dump) = 2 + n + (IF n >= 1 THEN n - 1 ELSE 0)
                 /\ Dump[1] = Tok(idx, "[", 0)
                 /\ Dump[Len(Dump)] = Tok(idx, "]", 0)
                 /\ \A k \in 1..n : Dump[2 * k] = Tok(idx, "el", k)
                 /\ \A k \in 1..(n - 1) : Dump[2 * k + 1] = Tok(idx, ",", 0)

\* ==================================================== claims: the text

Paragraphs == text[1].contents

\* C6: whatever the text root, the anchor table holds both fixed identifiers,
\* each mapped to 100; with no text root it holds these two entries only.
C6_FixedAnchors ==
    phase = "done" =>
        LET ap == textOut[1].anchor_pos
        IN  /\ {FixedAnchor1, FixedAnchor2} \subseteq DOMAIN ap
            /\ ap[FixedAnchor1] = 100
            /\ ap[FixedAnchor2] = 100
            /\ text = <<>> => DOMAIN ap = {FixedAnchor1, FixedAnchor2}

\* The paragraphs whose content, trimmed of whitespace, is not empty.
NonBlank == {i \in 1..Len(Paragraphs) : strip(str(Paragraphs[i].contents)) # <<>>}

\* C9: draw_text emits a text record and a <text> element for exactly the
\* paragraphs whose trimmed content is non-empty.
C9_EmitsIffNonBlank ==
    (phase = "done" /\ text # <<>>) =>
        LET out == textOut[1].drawn
        IN  /\ Len(out.lines) = Cardinality(NonBlank)
            /\ Len(out.markup) = Cardinality(NonBlank)
            /\ \A j \in DOMAIN out.lines : out.lines[j].text # <<>>

\* Sum of the line heights of the first i paragraphs.
RECURSIVE HeightsUpTo(_, _)
HeightsUpTo(ps, i) ==
    IF i = 0 THEN 0 ELSE LineHeight(ps[i].style) + HeightsUpTo(ps, i - 1)

\* Every start identifier and run identifier of the text, in order.
RECURSIVE AllIds(_)
AllIds(ps) ==
    IF ps = <<>> THEN <<>>
    ELSE (<<Head(ps).start_id>> \o RunIds(Head(ps).contents)) \o AllIds(Tail(ps))

Range(f) == {f[x] : x \in DOMAIN f}

DistinctIds == Cardinality(Range(AllIds(Paragraphs))) = Len(AllIds(Paragraphs))

\* The paragraphs draw_text emits a record for, in order.
Emitted ==
    SelectSeq([i \in 1..Len(Paragraphs) |-> i],
              LAMBDA i : str(Paragraphs[i].contents) # <<>>)

\* C10: with pairwise distinct identifiers, the anchor table maps paragraph i's
\* identifiers to pos_y - 88 + the line heights of the paragraphs before it,
\* draw_text places it at pos_y - 88 + the line heights up to and including its
\* own, and the two differ by its own line height (70 outside the table).
C10_OffByOneLine ==
    (phase = "done" /\ text # <<>> /\ DistinctIds) =>
        LET t == text[1]
            ps == t.contents
            ap == textOut[1].anchor_pos
            lines == textOut[1].drawn.lines
        IN  /\ \A i \in 1..Len(ps) :
                  /\ ap[ps[i].start_id] = t.pos_y - 88 + HeightsUpTo(ps, i - 1)
                  /\ \A k \in Range(RunIds(ps[i].contents)) :
                        ap[k] = t.pos_y - 88 + HeightsUpTo(ps, i - 1)
            /\ Len(lines) = Len(Emitted)
            /\ \A j \in DOMAIN lines :
                  LET i == Emitted[j]
                  IN  /\ lines[j].yorg = t.pos_y - 88 + HeightsUpTo(ps, i)
                      /\ lines[j].yorg - ap[ps[i].start_id] = LineHeight(ps[i].style)
                      /\ ps[i].style \notin DOMAIN LINE_HEIGHTS
                            => lines[j].yorg - ap[ps[i].start_id] = 70

\* C10's case: a heading followed by a paragraph of a style outside the table,
\* both rendered, all identifiers distinct.
C10_Witness ==
    /\ phase = "done" /\ text # <<>> /\ DistinctIds
    /\ Len(Paragraphs) = 2
    /\ Paragraphs[1].style = "HEADING" /\ Paragraphs[2].style = "BASIC"
    /\ Len(textOut[1].drawn.lines) = 2
    /\ textOut[1].drawn.lines[2].yorg - textOut[1].anchor_pos[Paragraphs[2].start_id] = 70

\* ================================================= claims: the drawing

RECURSIVE PointsOfNodes(_, _)
PointsOfNodes(ns, n) ==
    IF n = 0 THEN 0 ELSE Len(ns[n].points) + PointsOfNodes(ns, n - 1)

\* The number of points of every Line in the tree.
TotalPoints == PointsOfNodes(nodes, Len(nodes))

\* C1: the flat list of the flattened walk holds one point record per point of
\* every Line of the tree, whatever the pens' segment lengths.
C1_OneRecordPerPoint ==
    (phase = "done" /\ drawn[1].completed) => Len(drawn[1].points) = TotalPoints

\* C8: the bounding box covers every point record of the flattened walk at its
\* translated position (xorg + anchorx, yorg + anchory).
C8_BoxCoversPoints ==
    (phase = "done" /\ drawn[1].completed) =>
        LET box == drawn[1].box
        IN  \A j \in DOMAIN drawn[1].points :
                LET r == drawn[1].points[j]
                IN  /\ box[1] <= r.xorg + r.anchorx /\ r.xorg + r.anchorx <= box[2]
                    /\ box[3] <= r.yorg + r.anchory /\ r.yorg + r.anchory <= box[4]

AnchorPos == build_anchor_pos(textSample)

\* The groups whose anchor identifier is not in the anchor table.
MissingAnchor ==
    {g \in GroupNodes : /\ nodes[g].anchor_id # <<>>
                        /\ nodes[g].anchor_id[1] \notin DOMAIN AnchorPos}

LinesOf(g) == {l \in LineNodes : nodes[l].parent = g}

ContiguousIn(a, b) ==
    \E off \in 0..(Len(b) - Len(a)) : \A k \in 1..Len(a) : b[off + k] = a[k]

\* C5 as claimed: for every group whose anchor identifier is not in the table,
\* with or without an anchor origin-x, get_anchor returns a y-offset of 0
\* without raising, and the conversion completes.
C5_Original ==
    phase = "done" =>
        \A g \in MissingAnchor :
            /\ get_anchor(nodes[g], AnchorPos).ok
            /\ get_anchor(nodes[g], AnchorPos).y = 0
            /\ (\A h \in GroupNodes \ MissingAnchor : nodes[h].anchor_id = <<>>)
                   => drawn[1].completed

\* C5 amended: for every group whose anchor identifier is not in the table and
\* which has an anchor origin-x, get_anchor returns (origin-x, 0) without
\* raising; its parent's box covers its strokes translated by (origin-x, 0) and
\* the flat list holds the records of its strokes with anchory 0; tree_to_json
\* completes exactly when no group has an anchor identifier without origin-x.
C5_Amended ==
    phase = "done" =>
        /\ drawn[1].completed <=>
               (\A g \in GroupNodes :
                    nodes[g].anchor_id # <<>> => nodes[g].anchor_origin_x # <<>>)
        /\ \A g \in MissingAnchor :
              nodes[g].anchor_origin_x # <<>> =>
                  LET ox == nodes[g].anchor_origin_x[1]
                  IN  /\ get_anchor(nodes[g], AnchorPos) = [ok |-> TRUE, x |-> ox, y |-> 0]
                      /\ drawn[1].completed =>
                            LET pb == get_bounding_box(nodes, nodes[g].parent, AnchorPos,
                                                       <<0, 0, 0, 0>>).box
                            IN  \A l \in LinesOf(g) :
                                    /\ \A k \in DOMAIN nodes[l].points :
                                          LET pt == nodes[l].points[k]
                                          IN  /\ pb[1] <= pt.x + ox /\ pt.x + ox <= pb[2]
                                              /\ pb[3] <= pt.y + 0 /\ pt.y + 0 <= pb[4]
                                    /\ ContiguousIn(draw_stroke(nodes[l], ox, 0),
                                                    drawn[1].points)
                                    /\ nodes[l].points # <<>> =>
                                          \E j \in DOMAIN drawn[1].points :
                                              /\ drawn[1].points[j].xorg = nodes[l].points[1].x
                                              /\ drawn[1].points[j].yorg = nodes[l].points[1].y
                                              /\ drawn[1].points[j].anchorx = ox
                                              /\ drawn[1].points[j].anchory = 0
                                              /\ drawn[1].points[j].y = yy(nodes[l].points[1].y)

\* C5's case: a converted drawing with a group anchored to an identifier in no
\* table, with an origin-x, holding a stroke.
C5_Witness ==
    /\ phase = "done" /\ drawn[1].completed /\ textSample # <<>>
    /\ \E g \in MissingAnchor :
          /\ nodes[g].anchor_origin_x # <<>>
          /\ \E l \in LinesOf(g) : Len(nodes[l].points) = 2
    /\ \E j \in DOMAIN drawn[1].points :
          drawn[1].points[j].anchorx = -800 /\ drawn[1].points[j].anchory = 0

====
